---- MODULE Spec2Model ----
(***************************************************************************)
(* rick-morty-app: the localStorage-backed location store                  *)
(* (utils/localStorage.ts) and the cumulative pagination merge of the      *)
(* Apollo cache (lib/apollo/client.ts).                                    *)
(***************************************************************************)
EXTENDS Integers, Sequences, FiniteSets, TLC

\* ------------------------------------------------------------------------
\* Bounds
\* ------------------------------------------------------------------------
MaxClock == 2
MaxLocations == 2
MaxMerges == 2
MaxPageLen == 2
MaxSearches == 2
MaxBurst == 3

\* ------------------------------------------------------------------------
\* Values
\* ------------------------------------------------------------------------
Null == [null |-> TRUE]            \* null / undefined
CorruptBlob == [text |-> <<"{not json">>]

NameChars == {" ", "E", "e"}
CharacterIds == {"5", "7"}
ClockValues == 1..MaxClock

RECURSIVE SeqsUpTo(_, _)
SeqsUpTo(S, n) ==
  IF n = 0 THEN {<<>>}
  ELSE LET shorter == SeqsUpTo(S, n - 1)
       IN shorter \cup {Append(s, x) : s \in {t \in shorter : Len(t) = n - 1}, x \in S}

\* The names given to addLocation: empty, blank, padded with whitespace, equal
\* up to letter case, and with whitespace inside.
NameInputs ==
  {<<>>, <<" ">>, <<"E">>, <<"e">>, <<" ", "e">>, <<"E", " ">>,
   <<"e", "e">>, <<"e", " ", "e">>}

\* Array.prototype.find: the index of the first element passing the test, 0 if none
FirstIndex(S) == IF S = {} THEN 0 ELSE CHOOSE i \in S : \A j \in S : i <= j

Range(s) == {s[i] : i \in DOMAIN s}

\* ------------------------------------------------------------------------
\* String helpers used by addLocation
\* ------------------------------------------------------------------------
IsWhiteSpace(ch) == ch = " "

\* trim that strips the leading whitespace only
RECURSIVE trimStart(_)
trimStart(s) ==
  IF s = <<>> THEN s
  ELSE IF IsWhiteSpace(Head(s)) THEN trimStart(Tail(s))
  ELSE s

\* String.prototype.trim
RECURSIVE trim(_)
trim(s) ==
  IF s = <<>> THEN s
  ELSE IF IsWhiteSpace(Head(s)) THEN trim(Tail(s))
  ELSE IF IsWhiteSpace(s[Len(s)]) THEN trim(SubSeq(s, 1, Len(s) - 1))
  ELSE s

LowerChar(ch) == IF ch = "E" THEN "e" ELSE ch

\* String.prototype.toLowerCase
toLowerCase(s) == [i \in DOMAIN s |-> LowerChar(s[i])]

\* Date.now().toString()
DateNowToString(t) == ToString(t)

\* new Date().toISOString()
toISOString(t) == "1970-01-01T00:00:00.00" \o ToString(t) \o "Z"

LocationIdInputs == {DateNowToString(t) : t \in ClockValues}

\* ------------------------------------------------------------------------
\* State
\* ------------------------------------------------------------------------
VARIABLES
  storage,    \* localStorage[LOCATIONS_KEY]: Null or the stored string
  hasWindow,  \* typeof window !== 'undefined'
  now,        \* the clock read by Date.now() / new Date()
  call,       \* the last store call: operation, arguments, result, storage before
  cache,      \* Apollo cache: Query.characters entry per keyArgs value
  merged,     \* the last merge: key, existing entry, incoming page
  merges,     \* number of merges done
  searchQuery,    \* CharactersPage: useState('') searchQuery
  characters,     \* useQuery: data.characters, Null while there is no data
  networkStatus,  \* useQuery: the network status behind `loading`
  error,          \* useQuery: error
  inflight,       \* the requests sent and not yet answered
  mounted,        \* a SearchBar instance is mounted
  query,          \* SearchBar: useState(initialValue) query
  timers,         \* the timeouts set and neither run nor cleared
  timeoutId,      \* the timeout of the effect that ran last, 0 before the first
  sinceChange,    \* ms since the input text changed or the SearchBar mounted
  edited,         \* the user has changed the input text since the mount
  searches,       \* the texts onSearch was called with, in order
  burst,          \* the texts of the keystrokes less than 500 ms apart
  burstCalls,     \* the onSearch calls since the burst began
  event           \* the last event of the page

storeVars == <<storage, hasWindow, now, call>>
cacheVars == <<cache, merged, merges>>
pageVars == <<searchQuery, characters, networkStatus, error, inflight, event>>
barVars == <<mounted, query, timers, timeoutId, sinceChange, edited, searches,
             burst, burstCalls>>
uiVars == <<pageVars, barVars>>
vars == <<storeVars, cacheVars, uiVars>>

\* ------------------------------------------------------------------------
\* localStorage.ts
\* ------------------------------------------------------------------------
JSONStringify(locations) == [text |-> <<"json", locations>>]

JSONParseOk(data) == data.text[1] = "json"
JSONParse(data) == data.text[2]

Returned(value) == [threw |-> FALSE, value |-> value]
Thrown == [threw |-> TRUE, value |-> <<>>]

\* getLocations without its try/catch
getLocationsNoCatch(win, stored, getItemThrows) ==
  IF ~win THEN Returned(<<>>)
  ELSE IF getItemThrows THEN Thrown
  ELSE IF stored = Null THEN Returned(<<>>)
  ELSE IF ~JSONParseOk(stored) THEN Thrown
  ELSE Returned(JSONParse(stored))

\* getLocations, with what reaches its caller: localStorage.getItem or
\* JSON.parse may throw inside the try block, and the catch returns [].
getLocationsOutcome(win, stored, getItemThrows) ==
  IF ~win THEN Returned(<<>>)
  ELSE IF getItemThrows THEN Returned(<<>>)
  ELSE IF stored = Null THEN Returned(<<>>)
  ELSE IF ~JSONParseOk(stored) THEN Returned(<<>>)
  ELSE Returned(JSONParse(stored))

\* getLocations when localStorage.getItem does not throw
getLocations(win, stored) == getLocationsOutcome(win, stored, FALSE).value

\* saveLocations: the storage after the call; setItem may throw, and the
\* exception is caught and logged.
saveLocations(win, stored, locations, setItemThrows) ==
  IF ~win THEN stored
  ELSE IF setItemThrows THEN stored
  ELSE JSONStringify(locations)

\* nameExists with a case-sensitive comparison
nameExistsCaseSensitive(locations, trimmedName) ==
  \E i \in DOMAIN locations : locations[i].name = trimmedName

nameExists(locations, trimmedName) ==
  \E i \in DOMAIN locations :
    toLowerCase(locations[i].name) = toLowerCase(trimmedName)

\* Both clock reads of one call see the same millisecond t.
newLocation(trimmedName, t) ==
  [id |-> DateNowToString(t),
   name |-> trimmedName,
   characterIds |-> <<>>,
   createdAt |-> toISOString(t)]

\* no filter: the ids are kept as they are
filteredIdsKeepAll(characterIds, characterId) == characterIds

\* characterIds.filter((id) => id !== characterId)
filteredIds(characterIds, characterId) ==
  SelectSeq(characterIds, LAMBDA id : id # characterId)

\* assign that takes the target out of the collection and pushes it back,
\* renewed, at the end
assignTargetLast(locations, characterId, locationId) ==
  LET updated == [i \in DOMAIN locations |->
                    [locations[i] EXCEPT !.characterIds =
                       filteredIds(locations[i].characterIds, characterId)]]
      others == SelectSeq(updated, LAMBDA loc : loc.id # locationId)
      targets == SelectSeq(updated, LAMBDA loc : loc.id = locationId)
  IN others \o [i \in DOMAIN targets |->
                  [targets[i] EXCEPT !.characterIds = Append(@, characterId)]]

assignUpdatedLocations(locations, characterId, locationId) ==
  [i \in DOMAIN locations |->
     LET loc == locations[i]
     IN IF loc.id = locationId
        THEN [loc EXCEPT !.characterIds =
                Append(filteredIds(loc.characterIds, characterId), characterId)]
        ELSE [loc EXCEPT !.characterIds = filteredIds(loc.characterIds, characterId)]]

deleteUpdatedLocations(locations, locationId) ==
  SelectSeq(locations, LAMBDA loc : loc.id # locationId)

removeUpdatedLocations(locations, characterId) ==
  [i \in DOMAIN locations |->
     [locations[i] EXCEPT !.characterIds =
        filteredIds(locations[i].characterIds, characterId)]]

\* getCharacterLocation
getCharacterLocation(win, stored, characterId) ==
  LET locations == getLocations(win, stored)
      i == FirstIndex({j \in DOMAIN locations :
                         characterId \in Range(locations[j].characterIds)})
  IN IF i = 0 THEN Null ELSE locations[i]

\* getLocationById
getLocationById(win, stored, locationId) ==
  LET locations == getLocations(win, stored)
      i == FirstIndex({j \in DOMAIN locations : locations[j].id = locationId})
  IN IF i = 0 THEN Null ELSE locations[i]

\* reads / writes: the calls of localStorage.getItem / setItem made by the call
NoCall ==
  [op |-> "none", name |-> <<>>, characterId |-> "", locationId |-> "",
   ret |-> Null, before |-> Null, setItemThrows |-> FALSE,
   getItemThrows |-> FALSE, threw |-> FALSE, reads |-> 0, writes |-> 0]

\* getItem is reached only in a browser, setItem likewise
getItemCalls(win) == IF win THEN 1 ELSE 0
setItemCalls(win) == IF win THEN 1 ELSE 0

\* A caller reads the collection (the locations page, the detail pages).
readLocations(getItemThrows) ==
  LET outcome == getLocationsOutcome(hasWindow, storage, getItemThrows)
  IN /\ call' = [NoCall EXCEPT !.op = "getLocations", !.ret = outcome.value,
                               !.threw = outcome.threw, !.before = storage,
                               !.getItemThrows = getItemThrows,
                               !.reads = getItemCalls(hasWindow)]
     /\ UNCHANGED <<storage, hasWindow, now, cacheVars, uiVars>>

addLocation(name, setItemThrows) ==
  LET trimmedName == trim(name)
      locations == getLocations(hasWindow, storage)
      done(ret, reads, writes) ==
        [NoCall EXCEPT !.op = "addLocation", !.name = name, !.ret = ret,
                       !.before = storage, !.setItemThrows = setItemThrows,
                       !.reads = reads, !.writes = writes]
  IN /\ IF trimmedName = <<>>
        THEN /\ setItemThrows = FALSE
             /\ call' = done(Null, 0, 0)
             /\ UNCHANGED <<storage, now>>
        ELSE IF nameExists(locations, trimmedName)
        THEN /\ setItemThrows = FALSE
             /\ call' = done(Null, getItemCalls(hasWindow), 0)
             /\ UNCHANGED <<storage, now>>
        ELSE /\ Len(locations) < MaxLocations
             /\ LET loc == newLocation(trimmedName, now)
                IN /\ storage' = saveLocations(hasWindow, storage,
                                               Append(locations, loc), setItemThrows)
                   /\ call' = done(loc, getItemCalls(hasWindow), setItemCalls(hasWindow))
             /\ UNCHANGED now
     /\ UNCHANGED <<hasWindow, cacheVars, uiVars>>

\* assignCharacterToLocation without the early return for an unknown target
assignWithoutTargetCheck(characterId, locationId, setItemThrows) ==
  LET locations == getLocations(hasWindow, storage)
  IN /\ storage' = saveLocations(hasWindow, storage,
                       assignUpdatedLocations(locations, characterId, locationId),
                       setItemThrows)
     /\ call' = [NoCall EXCEPT !.op = "assignCharacterToLocation",
                               !.characterId = characterId, !.locationId = locationId,
                               !.ret = TRUE, !.before = storage,
                               !.setItemThrows = setItemThrows,
                               !.reads = getItemCalls(hasWindow),
                               !.writes = setItemCalls(hasWindow)]
     /\ UNCHANGED <<hasWindow, now, cacheVars, uiVars>>

assignCharacterToLocation(characterId, locationId, setItemThrows) ==
  LET locations == getLocations(hasWindow, storage)
      targetLocation == getLocationById(hasWindow, storage, locationId)
      done(ret, writes) ==
        [NoCall EXCEPT !.op = "assignCharacterToLocation",
                       !.characterId = characterId, !.locationId = locationId,
                       !.ret = ret, !.before = storage,
                       !.setItemThrows = setItemThrows,
                       !.reads = getItemCalls(hasWindow), !.writes = writes]
  IN /\ IF targetLocation = Null
        THEN /\ setItemThrows = FALSE
             /\ call' = done(FALSE, 0)
             /\ UNCHANGED storage
        ELSE /\ storage' = saveLocations(hasWindow, storage,
                             assignUpdatedLocations(locations, characterId, locationId),
                             setItemThrows)
             /\ call' = done(TRUE, setItemCalls(hasWindow))
     /\ UNCHANGED <<hasWindow, now, cacheVars, uiVars>>

\* deleteLocation without the early return for an unknown id
deleteAlwaysSaves(locationId, setItemThrows) ==
  LET locations == getLocations(hasWindow, storage)
      updatedLocations == deleteUpdatedLocations(locations, locationId)
  IN /\ storage' = saveLocations(hasWindow, storage, updatedLocations, setItemThrows)
     /\ call' = [NoCall EXCEPT !.op = "deleteLocation", !.locationId = locationId,
                               !.ret = (Len(updatedLocations) # Len(locations)),
                               !.before = storage,
                               !.setItemThrows = setItemThrows,
                               !.reads = getItemCalls(hasWindow),
                               !.writes = setItemCalls(hasWindow)]
     /\ UNCHANGED <<hasWindow, now, cacheVars, uiVars>>

deleteLocation(locationId, setItemThrows) ==
  LET locations == getLocations(hasWindow, storage)
      updatedLocations == deleteUpdatedLocations(locations, locationId)
      done(ret, writes) ==
        [NoCall EXCEPT !.op = "deleteLocation", !.locationId = locationId,
                       !.ret = ret, !.before = storage,
                       !.setItemThrows = setItemThrows,
                       !.reads = getItemCalls(hasWindow), !.writes = writes]
  IN /\ IF Len(updatedLocations) = Len(locations)
        THEN /\ setItemThrows = FALSE
             /\ call' = done(FALSE, 0)
             /\ UNCHANGED storage
        ELSE /\ storage' = saveLocations(hasWindow, storage, updatedLocations,
                                         setItemThrows)
             /\ call' = done(TRUE, setItemCalls(hasWindow))
     /\ UNCHANGED <<hasWindow, now, cacheVars, uiVars>>

removeCharacterFromLocations(characterId, setItemThrows) ==
  LET locations == getLocations(hasWindow, storage)
  IN /\ storage' = saveLocations(hasWindow, storage,
                                 removeUpdatedLocations(locations, characterId),
                                 setItemThrows)
     /\ call' = [NoCall EXCEPT !.op = "removeCharacterFromLocations",
                               !.characterId = characterId, !.ret = TRUE,
                               !.before = storage, !.setItemThrows = setItemThrows,
                               !.reads = getItemCalls(hasWindow),
                               !.writes = setItemCalls(hasWindow)]
     /\ UNCHANGED <<hasWindow, now, cacheVars, uiVars>>

\* ------------------------------------------------------------------------
\* lib/apollo/client.ts: typePolicies.Query.fields.characters
\* ------------------------------------------------------------------------
NoPage == 0                        \* info.next / info.prev of null
NoRef == ""                        \* an item without __ref

Item(ref, id) == [ref |-> ref, id |-> id]
Items == {Item(NoRef, "a"), Item(NoRef, "b"), Item(NoRef, "c"), Item("a", "b")}

\* The info of a first page and of a last page, different in every field.
Infos ==
  {[count |-> 3, pages |-> 2, next |-> 2, prev |-> NoPage],
   [count |-> 4, pages |-> 3, next |-> NoPage, prev |-> 1]}

\* A response's characters object; a malformed one has no results array.
IncomingPages ==
  {[info |-> info, results |-> results] :
     info \in Infos, results \in SeqsUpTo(Items, MaxPageLen)}
  \cup {[info |-> info] : info \in Infos}

NoFilter == ""                     \* filter: undefined
FilterValues == {NoFilter, "Rick"}
PageNumbers == {1, 2}
FetchArgs == [page : PageNumbers, filter : FilterValues]

\* keyArgs: false, one entry for every query
keyArgsNone(args) == NoFilter

\* keyArgs: ['filter']
keyArgs(args) == args.filter

\* item.__ref || item.id
ItemId(item) == IF item.ref # NoRef THEN item.ref ELSE item.id

\* x.results || []
resultsOrEmpty(x) == IF "results" \in DOMAIN x THEN x.results ELSE <<>>

\* merge without the filter on existing identifiers
mergeAppendAll(existing, incoming) ==
  IF existing = Null THEN incoming
  ELSE [f \in DOMAIN incoming \cup {"results"} |->
          IF f = "results"
          THEN resultsOrEmpty(existing) \o resultsOrEmpty(incoming)
          ELSE incoming[f]]

\* merge that puts the new records in front of the existing ones
mergeNewFirst(existing, incoming) ==
  IF existing = Null THEN incoming
  ELSE LET existingResults == resultsOrEmpty(existing)
           incomingResults == resultsOrEmpty(incoming)
           existingIds == {ItemId(existingResults[i]) : i \in DOMAIN existingResults}
           newResults == SelectSeq(incomingResults,
                                   LAMBDA item : ItemId(item) \notin existingIds)
       IN [f \in DOMAIN incoming \cup {"results"} |->
             IF f = "results" THEN newResults \o existingResults ELSE incoming[f]]

\* merge that gives the first page an array of results
mergeFirstNormalized(existing, incoming) ==
  LET existingResults == IF existing = Null THEN <<>> ELSE resultsOrEmpty(existing)
      incomingResults == resultsOrEmpty(incoming)
      existingIds == {ItemId(existingResults[i]) : i \in DOMAIN existingResults}
      newResults == SelectSeq(incomingResults,
                              LAMBDA item : ItemId(item) \notin existingIds)
  IN [f \in DOMAIN incoming \cup {"results"} |->
        IF f = "results" THEN existingResults \o newResults ELSE incoming[f]]

\* merge that keeps the total count of the existing entry
mergeKeepCount(existing, incoming) ==
  IF existing = Null THEN incoming
  ELSE LET existingResults == resultsOrEmpty(existing)
           incomingResults == resultsOrEmpty(incoming)
           existingIds == {ItemId(existingResults[i]) : i \in DOMAIN existingResults}
           newResults == SelectSeq(incomingResults,
                                   LAMBDA item : ItemId(item) \notin existingIds)
       IN [info |-> [incoming.info EXCEPT !.count = existing.info.count],
           results |-> existingResults \o newResults]

\* merge that keeps only the page that arrived last
mergeLastPageOnly(existing, incoming) == incoming

merge(existing, incoming) ==
  IF existing = Null THEN incoming
  ELSE LET existingResults == resultsOrEmpty(existing)
           incomingResults == resultsOrEmpty(incoming)
           existingIds == {ItemId(existingResults[i]) : i \in DOMAIN existingResults}
           newResults == SelectSeq(incomingResults,
                                   LAMBDA item : ItemId(item) \notin existingIds)
       IN [f \in DOMAIN incoming \cup {"results"} |->
             IF f = "results" THEN existingResults \o newResults ELSE incoming[f]]

\* A response for the query with these arguments is written to the cache.
writeIncoming(args, incoming) ==
  LET key == keyArgs(args)
      existing == cache[key]
  IN /\ merges < MaxMerges
     /\ cache' = [cache EXCEPT ![key] = merge(existing, incoming)]
     /\ merged' = [key |-> key, existing |-> existing, incoming |-> incoming,
                   args |-> args]
     /\ merges' = merges + 1
     /\ UNCHANGED <<storeVars, uiVars>>

\* ------------------------------------------------------------------------
\* components/SearchBar.tsx
\* ------------------------------------------------------------------------
DebounceDelay == 500               \* setTimeout(..., 500), in ms
Quantum == 250                     \* the step of the clock, in ms
DefaultInitialValue == ""          \* initialValue = ''

\* The texts of the input: empty, and what is there while "Rick" is typed.
SearchTexts == {"", "R", "Ri", "Rick"}

NoEvent == [op |-> "none", text |-> "", searchQuery |-> "", edited |-> FALSE,
            started |-> {}, outstanding |-> {}, data |-> Null]

Min(a, b) == IF a <= b THEN a ELSE b

\* clearTimeout(timeoutId); clearing a timeout that has run clears nothing
clearTimeout(ts, id) == {t \in ts : t.id # id}

\* setTimeout(() => { onSearch(query) }, 500): the callback keeps the query of
\* its render; the new timeout gets the least id not in use.
setTimeout(ts, text) ==
  LET used == {t.id : t \in ts}
      id == CHOOSE i \in 1..(Cardinality(ts) + 1) :
              i \notin used /\ \A j \in 1..(i - 1) : j \in used
  IN [timers |-> ts \cup {[id |-> id, query |-> text, elapsed |-> 0]},
      timeoutId |-> id]

\* useEffect without the cleanup function
useEffectNoCleanup(ts, id, text) == setTimeout(ts, text)

\* useEffect(..., [query, onSearch]) when a dependency changed: the cleanup of
\* the previous run, then the effect.
useEffect(ts, id, text) == setTimeout(clearTimeout(ts, id), text)

\* A SearchBar is mounted: useState(initialValue), then the effect runs.
mountSearchBar(ts, initialValue) ==
  LET effect == useEffect(ts, 0, initialValue)
  IN [mounted |-> TRUE, query |-> initialValue, timers |-> effect.timers,
      timeoutId |-> effect.timeoutId]

\* onChange / handleClear: setQuery(text). The input changes to another text,
\* the SearchBar renders again and its effect runs again.
setQuery(text) ==
  /\ mounted
  /\ text # query
  /\ query' = text
  /\ LET effect == useEffect(timers, timeoutId, text)
     IN timers' = effect.timers /\ timeoutId' = effect.timeoutId
  /\ sinceChange' = 0
  /\ edited' = TRUE
  /\ event' = [NoEvent EXCEPT !.op = "setQuery", !.text = text,
                              !.searchQuery = searchQuery]
  /\ UNCHANGED <<searchQuery, characters, networkStatus, error, inflight, mounted,
                 searches, storeVars, cacheVars>>

\* The keystroke joins the burst when it comes less than 500 ms after the
\* keystroke before it, and starts a burst otherwise.
keystroke(text) ==
  /\ Len(burst) < MaxBurst \/ sinceChange >= DebounceDelay
  /\ IF burst # <<>> /\ sinceChange < DebounceDelay
     THEN burst' = Append(burst, text) /\ UNCHANGED burstCalls
     ELSE burst' = <<text>> /\ burstCalls' = 0

\* Time passes; a timeout that is due runs before the clock moves on.
Advance ==
  /\ timers # {} \/ (mounted /\ sinceChange < DebounceDelay)
  /\ \A t \in timers : t.elapsed < DebounceDelay
  /\ timers' = {[t EXCEPT !.elapsed = @ + Quantum] : t \in timers}
  /\ sinceChange' = Min(sinceChange + Quantum, DebounceDelay)
  /\ UNCHANGED <<pageVars, mounted, query, timeoutId, edited, searches, burst,
                 burstCalls, storeVars, cacheVars>>

\* The timeout t runs under a parent whose onSearch is the same function in
\* every render and leaves the parent as it is: onSearch(query).
timeoutStableParent(t) ==
  /\ t \in timers
  /\ t.elapsed >= DebounceDelay
  /\ Len(searches) < MaxSearches
  /\ timers' = timers \ {t}
  /\ searches' = Append(searches, t.query)
  /\ burstCalls' = burstCalls + 1
  /\ event' = [NoEvent EXCEPT !.op = "onSearch", !.text = t.query,
                              !.searchQuery = searchQuery, !.edited = edited]
  /\ UNCHANGED <<searchQuery, characters, networkStatus, error, inflight, mounted,
                 query, timeoutId, sinceChange, edited, burst, storeVars,
                 cacheVars>>

\* No page is open.
InitUi ==
  /\ searchQuery = ""
  /\ characters = Null
  /\ networkStatus = "ready"
  /\ error = FALSE
  /\ inflight = {}
  /\ mounted = FALSE
  /\ query = ""
  /\ timers = {}
  /\ timeoutId = 0
  /\ sinceChange = 0
  /\ edited = FALSE
  /\ searches = <<>>
  /\ burst = <<>>
  /\ burstCalls = 0
  /\ event = NoEvent

\* ------------------------------------------------------------------------
\* app/characters/page.tsx
\* ------------------------------------------------------------------------
\* The server's list: CataloguePages pages of one record each.
CataloguePages == 3
CatalogueIds == <<"a", "b", "c">>

ServerPage(p) ==
  [info |-> [count |-> CataloguePages, pages |-> CataloguePages,
             next |-> IF p < CataloguePages THEN p + 1 ELSE NoPage,
             prev |-> IF p > 1 THEN p - 1 ELSE NoPage],
   results |-> <<Item(NoRef, CatalogueIds[p])>>]

\* The answer to a filter no record matches.
EmptyPage ==
  [info |-> [count |-> 0, pages |-> 0, next |-> NoPage, prev |-> NoPage],
   results |-> <<>>]

Request(kind, filter, page) == [kind |-> kind, filter |-> filter, page |-> page]

\* The answers the server may give to a request.
Responses(request) ==
  IF request.page = 1 THEN {ServerPage(1), EmptyPage}
  ELSE {ServerPage(request.page)}

\* filter: searchQuery ? { name: searchQuery } : undefined
FilterOf(text) == IF text = "" THEN NoFilter ELSE text

\* loading: a request of the query is in flight
Loading(status) == status \in {"loading", "setVariables", "fetchMore"}

\* The branch CharactersPage returns.
Branch(chars, status, err) ==
  IF Loading(status) /\ chars = Null THEN "loading"
  ELSE IF err THEN "error"
  ELSE IF chars = Null \/ Len(chars.results) = 0 THEN "nodata"
  ELSE "main"

\* The SearchBar of the loading branch at a place of its own
SearchBarPathLoadingApart(branch) ==
  CASE branch = "loading" -> <<1, 1>>
    [] branch = "nodata" -> <<2, 1>>
    [] branch = "main" -> <<2, 1>>
    [] OTHER -> <<>>

\* The place of the SearchBar element in the tree a branch returns: the
\* first child of the second child of the root <div>; the error branch has
\* no SearchBar.
SearchBarPath(branch) ==
  CASE branch = "loading" -> <<2, 1>>
    [] branch = "nodata" -> <<2, 1>>
    [] branch = "main" -> <<2, 1>>
    [] OTHER -> <<>>

\* The initialValue a branch passes to its SearchBar.
InitialValueProp(branch, sq) ==
  CASE branch = "loading" -> DefaultInitialValue
    [] branch = "nodata" -> sq
    [] branch = "main" -> sq
    [] OTHER -> DefaultInitialValue

\* The SearchBar after CharactersPage rendered again, ts being the timeouts
\* pending: an element of the same type at the same place keeps its instance
\* and state, and its effect runs again because handleSearch is a new
\* function in every render; otherwise the old instance unmounts (cleanup)
\* and the new one mounts with the initialValue of its branch.
AfterRender(ts, branchBefore, branchAfter, sq) ==
  IF SearchBarPath(branchAfter) = <<>>
  THEN [mounted |-> FALSE, query |-> "", timers |-> clearTimeout(ts, timeoutId),
        timeoutId |-> 0, sinceChange |-> sinceChange, edited |-> FALSE]
  ELSE IF mounted /\ SearchBarPath(branchBefore) = SearchBarPath(branchAfter)
  THEN LET effect == useEffect(ts, timeoutId, query)
       IN [mounted |-> TRUE, query |-> query, timers |-> effect.timers,
           timeoutId |-> effect.timeoutId, sinceChange |-> sinceChange,
           edited |-> edited]
  ELSE LET bar == mountSearchBar(clearTimeout(ts, timeoutId),
                                 InitialValueProp(branchAfter, sq))
       IN [mounted |-> TRUE, query |-> bar.query, timers |-> bar.timers,
           timeoutId |-> bar.timeoutId, sinceChange |-> 0, edited |-> FALSE]

\* The state of the page after an event, ts being the timeouts pending: the
\* page renders again when its state or the result of useQuery changed.
Commit(sq, chars, status, err, requests, entries, ts, ev) ==
  /\ searchQuery' = sq
  /\ characters' = chars
  /\ networkStatus' = status
  /\ error' = err
  /\ inflight' = requests
  /\ cache' = entries
  /\ event' = ev
  /\ IF <<sq, chars, status, err>> = <<searchQuery, characters, networkStatus, error>>
     THEN /\ timers' = ts
          /\ UNCHANGED <<mounted, query, timeoutId, sinceChange, edited>>
     ELSE LET bar == AfterRender(ts, Branch(characters, networkStatus, error),
                                 Branch(chars, status, err), sq)
          IN /\ mounted' = bar.mounted
             /\ query' = bar.query
             /\ timers' = bar.timers
             /\ timeoutId' = bar.timeoutId
             /\ sinceChange' = bar.sinceChange
             /\ edited' = bar.edited
  /\ UNCHANGED <<searches, burst, burstCalls, storeVars, merged, merges>>

\* The timeout t runs under CharactersPage: onSearch(query) is handleSearch,
\* setSearchQuery(query) and setPage(1); page stays 1. With another
\* searchQuery the variables of useQuery change: the entry of the filter is
\* read from the cache, or requested when there is none.
handleSearch(t) ==
  /\ t \in timers
  /\ t.elapsed >= DebounceDelay
  /\ LET filter == FilterOf(t.query)
         ev == [NoEvent EXCEPT !.op = "onSearch", !.text = t.query,
                               !.searchQuery = searchQuery, !.edited = edited]
     IN IF t.query = searchQuery
        THEN Commit(searchQuery, characters, networkStatus, error, inflight,
                    cache, timers \ {t}, ev)
        ELSE IF cache[filter] # Null
        THEN Commit(t.query, cache[filter], "ready", FALSE, inflight, cache,
                    timers \ {t}, ev)
        ELSE Commit(t.query, Null, "setVariables", FALSE,
                    inflight \cup {Request("query", filter, 1)}, cache,
                    timers \ {t}, ev)

\* handleLoadMore: the fetches it starts
handleLoadMore(chars, sq) ==
  IF chars = Null THEN {}
  ELSE IF chars.info.next = NoPage THEN {}
  ELSE {Request("fetchMore", FilterOf(sq), chars.info.next)}

\* The Load More button is clicked: it is rendered in the main branch when
\* info.next is not null, and disabled while loading.
clickLoadMore ==
  /\ Branch(characters, networkStatus, error) = "main"
  /\ characters.info.next # NoPage
  /\ ~Loading(networkStatus)
  /\ LET started == handleLoadMore(characters, searchQuery)
         ev == [NoEvent EXCEPT !.op = "handleLoadMore", !.searchQuery = searchQuery,
                               !.started = started,
                               !.outstanding = {r \in inflight : r.kind = "fetchMore"},
                               !.data = characters]
     IN Commit(searchQuery, characters,
               IF started = {} THEN networkStatus ELSE "fetchMore",
               error, inflight \cup started, cache, timers, ev)

\* updateQuery: the pagination of the new page, the old results followed by
\* the new ones
updateQuery(prevResult, fetchMoreResult) ==
  [info |-> fetchMoreResult.info,
   results |-> prevResult.results \o fetchMoreResult.results]

\* The answer to the query of the hook arrives: a page, written to the cache
\* through merge, or an error. An answer for variables the hook has left is
\* not shown; it is written to the cache or dropped.
queryResult(request, ok, page, written) ==
  /\ request \in inflight
  /\ request.kind = "query"
  /\ LET filter == request.filter
         awaited == /\ filter = FilterOf(searchQuery)
                    /\ networkStatus \in {"loading", "setVariables"}
         entries == [cache EXCEPT ![filter] = merge(cache[filter], page)]
         ev == [NoEvent EXCEPT !.op = "queryResult", !.searchQuery = searchQuery]
     IN IF awaited
        THEN /\ written
             /\ IF ok
                THEN Commit(searchQuery, entries[filter], "ready", FALSE,
                            inflight \ {request}, entries, timers, ev)
                ELSE Commit(searchQuery, characters, "error", TRUE,
                            inflight \ {request}, cache, timers, ev)
        ELSE Commit(searchQuery, characters, networkStatus, error,
                    inflight \ {request},
                    IF ok /\ written THEN entries ELSE cache, timers, ev)

\* The answer to a fetchMore arrives: the status goes back from fetchMore,
\* and updateQuery is applied to the entry of the current variables, whose
\* result is written through merge. An answer that was asked under another
\* filter is applied or dropped; on an entry without data updateQuery throws.
fetchMoreResult(request, ok, applied) ==
  /\ request \in inflight
  /\ request.kind = "fetchMore"
  /\ LET filter == FilterOf(searchQuery)
         prevResult == cache[filter]
         page == ServerPage(request.page)
         status == IF networkStatus = "fetchMore" THEN "ready" ELSE networkStatus
         entries == [cache EXCEPT ![filter] =
                       merge(prevResult, updateQuery(prevResult, page))]
         ev == [NoEvent EXCEPT !.op = "fetchMoreResult", !.searchQuery = searchQuery]
     IN /\ request.filter = filter => applied
        /\ IF ok /\ applied /\ prevResult # Null
           THEN Commit(searchQuery,
                       IF characters # Null THEN entries[filter] ELSE characters,
                       status, error, inflight \ {request}, entries, timers, ev)
           ELSE Commit(searchQuery, characters, status, error,
                       inflight \ {request}, cache, timers, ev)

\* The clock advances between calls.
Tick ==
  /\ now < MaxClock
  /\ now' = now + 1
  /\ UNCHANGED <<storage, hasWindow, call, cacheVars, uiVars>>

InitStore ==
  /\ storage = Null
  /\ hasWindow = TRUE
  /\ now = 1
  /\ call = NoCall

InitCache ==
  /\ cache = [key \in FilterValues |-> Null]
  /\ merged = Null
  /\ merges = 0

Init == InitStore /\ InitCache /\ InitUi

Next ==
  \/ Tick
  \/ \E name \in NameInputs, setItemThrows \in BOOLEAN : addLocation(name, setItemThrows)
  \/ \E characterId \in CharacterIds, locationId \in LocationIdInputs,
        setItemThrows \in BOOLEAN :
       assignCharacterToLocation(characterId, locationId, setItemThrows)
  \/ \E locationId \in LocationIdInputs, setItemThrows \in BOOLEAN :
       deleteLocation(locationId, setItemThrows)
  \/ \E characterId \in CharacterIds, setItemThrows \in BOOLEAN :
       removeCharacterFromLocations(characterId, setItemThrows)

\* The location store.
Spec == Init /\ [][Next]_vars

\* A stored collection left by an earlier session.
StoredBefore ==
  JSONStringify(<<[id |-> DateNowToString(1), name |-> <<"E">>,
                   characterIds |-> <<"5">>, createdAt |-> toISOString(1)]>>)

\* Any environment: on the server or in a browser, with nothing stored, an
\* unparseable string, or a collection.
EnvInit ==
  /\ hasWindow \in BOOLEAN
  /\ storage \in {Null, CorruptBlob, StoredBefore}
  /\ now = 1
  /\ call = NoCall
  /\ InitCache
  /\ InitUi

EnvNext ==
  \/ Tick
  \/ \E getItemThrows \in BOOLEAN : readLocations(getItemThrows)
  \/ \E name \in NameInputs, setItemThrows \in BOOLEAN : addLocation(name, setItemThrows)
  \/ \E characterId \in CharacterIds, locationId \in LocationIdInputs,
        setItemThrows \in BOOLEAN :
       assignCharacterToLocation(characterId, locationId, setItemThrows)
  \/ \E locationId \in LocationIdInputs, setItemThrows \in BOOLEAN :
       deleteLocation(locationId, setItemThrows)
  \/ \E characterId \in CharacterIds, setItemThrows \in BOOLEAN :
       removeCharacterFromLocations(characterId, setItemThrows)

\* The location store in any environment.
EnvSpec == EnvInit /\ [][EnvNext]_vars

\* The responses for the pages of the unfiltered query; the response for
\* page p carries info.prev = p - 1.
CacheNext ==
  \E incoming \in IncomingPages :
    writeIncoming([page |-> incoming.info.prev + 1, filter |-> NoFilter], incoming)

\* One-record pages, for the queries of every filter.
PartitionPages ==
  {page \in IncomingPages : Len(resultsOrEmpty(page)) <= 1}

PartitionNext ==
  \E filter \in FilterValues, incoming \in PartitionPages :
    writeIncoming([page |-> incoming.info.prev + 1, filter |-> filter], incoming)

\* The cache entries of the queries with and without a filter.
PartitionSpec == Init /\ [][PartitionNext]_vars

\* The characters field of the Apollo cache.
CacheSpec == Init /\ [][CacheNext]_vars

\* A SearchBar alone, mounted with any initial text.
SearchBarInit ==
  /\ InitStore
  /\ InitCache
  /\ searchQuery = ""
  /\ characters = Null
  /\ networkStatus = "ready"
  /\ error = FALSE
  /\ inflight = {}
  /\ \E initialValue \in SearchTexts :
       LET bar == mountSearchBar({}, initialValue)
       IN /\ mounted = bar.mounted
          /\ query = bar.query
          /\ timers = bar.timers
          /\ timeoutId = bar.timeoutId
  /\ sinceChange = 0
  /\ edited = FALSE
  /\ searches = <<>>
  /\ burst = <<>>
  /\ burstCalls = 0
  /\ event = NoEvent

SearchBarNext ==
  \/ \E text \in SearchTexts : setQuery(text) /\ keystroke(text)
  \/ Advance
  \/ \E t \in timers : timeoutStableParent(t)

\* The SearchBar under a parent with a stable onSearch.
SearchBarSpec == SearchBarInit /\ [][SearchBarNext]_vars

\* CharactersPage renders for the first time: the query of page 1 without a
\* filter is sent, and the loading branch mounts its SearchBar.
PageInit ==
  /\ InitStore
  /\ InitCache
  /\ searchQuery = ""
  /\ characters = Null
  /\ networkStatus = "loading"
  /\ error = FALSE
  /\ inflight = {Request("query", FilterOf(""), 1)}
  /\ LET bar == mountSearchBar({}, InitialValueProp("loading", ""))
     IN /\ mounted = bar.mounted
        /\ query = bar.query
        /\ timers = bar.timers
        /\ timeoutId = bar.timeoutId
  /\ sinceChange = 0
  /\ edited = FALSE
  /\ searches = <<>>
  /\ burst = <<>>
  /\ burstCalls = 0
  /\ event = NoEvent

\* Try Again: window.location.reload(), the page starts again.
reload ==
  /\ Branch(characters, networkStatus, error) = "error"
  /\ searchQuery' = ""
  /\ characters' = Null
  /\ networkStatus' = "loading"
  /\ error' = FALSE
  /\ inflight' = {Request("query", FilterOf(""), 1)}
  /\ cache' = [key \in FilterValues |-> Null]
  /\ LET bar == mountSearchBar({}, InitialValueProp("loading", ""))
     IN /\ mounted' = bar.mounted
        /\ query' = bar.query
        /\ timers' = bar.timers
        /\ timeoutId' = bar.timeoutId
  /\ sinceChange' = 0
  /\ edited' = FALSE
  /\ event' = NoEvent
  /\ UNCHANGED <<searches, burst, burstCalls, storeVars, merged, merges>>

PageNext ==
  \/ \E text \in FilterValues : setQuery(text) /\ UNCHANGED <<burst, burstCalls>>
  \/ Advance
  \/ \E t \in timers : handleSearch(t)
  \/ clickLoadMore
  \/ \E request \in inflight, ok \in BOOLEAN, written \in BOOLEAN :
       \E page \in Responses(request) : queryResult(request, ok, page, written)
  \/ \E request \in inflight, ok \in BOOLEAN, applied \in BOOLEAN :
       fetchMoreResult(request, ok, applied)
  \/ reload

\* The characters page with its SearchBar and its query.
PageSpec == PageInit /\ [][PageNext]_vars

\* ------------------------------------------------------------------------
\* Properties
\* ------------------------------------------------------------------------
Locations == getLocations(hasWindow, storage)
LocationsBefore == getLocations(hasWindow, call.before)

Holders(locations, c) == {i \in DOMAIN locations : c \in Range(locations[i].characterIds)}

IsPrefix(s, t) == Len(s) <= Len(t) /\ SubSeq(t, 1, Len(s)) = s

\* Equality of names up to letter case, stated without toLowerCase.
CaseInsensitiveEqual(a, b) ==
  /\ Len(a) = Len(b)
  /\ \A i \in DOMAIN a : a[i] = b[i] \/ {a[i], b[i]} = {"E", "e"}

NoOuterWhiteSpace(s) == s # <<>> /\ s[1] # " " /\ s[Len(s)] # " "

\* x is s without its leading and trailing whitespace, stated without trim.
IsTrimmed(x, s) ==
  /\ x = <<>> \/ NoOuterWhiteSpace(x)
  /\ \E a, b \in 0..Len(s) :
       /\ a + b <= Len(s)
       /\ x = SubSeq(s, a + 1, Len(s) - b)
       /\ \A i \in 1..a : s[i] = " "
       /\ \A i \in (Len(s) - b + 1)..Len(s) : s[i] = " "

\* The substrings of the names given to addLocation.
StoredNames ==
  UNION {{SubSeq(s, a, b) : a \in 1..(Len(s) + 1), b \in 0..Len(s)} : s \in NameInputs}

\* C1: no character id is in the characterIds of more than one Location.
SingleOwner ==
  \A c \in CharacterIds : Cardinality(Holders(Locations, c)) <= 1

\* C2: no two Locations of the persisted collection have the same id.
LocationIdUnique ==
  \A i, j \in DOMAIN Locations : i # j => Locations[i].id # Locations[j].id

\* C3: no two stored names are equal case-insensitively, every stored name is
\* non-empty without leading or trailing whitespace, and addLocation of a name
\* that equals a stored name case-insensitively (after trimming) returns null
\* and leaves the collection as it was.
NameUniqueness ==
  /\ \A i, j \in DOMAIN Locations :
       i # j => ~CaseInsensitiveEqual(Locations[i].name, Locations[j].name)
  /\ \A i \in DOMAIN Locations : NoOuterWhiteSpace(Locations[i].name)
  /\ (/\ call.op = "addLocation"
      /\ \E i \in DOMAIN LocationsBefore, x \in NameInputs :
           /\ IsTrimmed(x, call.name)
           /\ CaseInsensitiveEqual(LocationsBefore[i].name, x))
     => (call.ret = Null /\ storage = call.before)

\* addLocation("E") is stored, then addLocation("e") is refused.
NameUniquenessWitness ==
  /\ call.op = "addLocation"
  /\ call.name = <<"e">>
  /\ Len(LocationsBefore) = 1
  /\ LocationsBefore[1].name = <<"E">>
  /\ call.ret = Null
  /\ Len(Locations) = 1

\* C4: the results list of a cache entry never holds two records with the
\* same identifier.
MergeIdentifierUniqueness ==
  \A key \in FilterValues :
    cache[key] # Null =>
      LET results == resultsOrEmpty(cache[key])
      IN \A i, j \in DOMAIN results :
           i # j => ItemId(results[i]) # ItemId(results[j])

\* C5: merging the page that was just merged once more gives the same entry,
\* merge(merge(E, P), P) = merge(E, P).
MergeIdempotence ==
  merged # Null =>
    merge(cache[merged.key], merged.incoming) = cache[merged.key]

\* The n-th (in incoming order) incoming record whose identifier is not among
\* the existing records.
NewIndices(existingResults, incomingResults) ==
  {j \in DOMAIN incomingResults :
     \A i \in DOMAIN existingResults :
       ItemId(existingResults[i]) # ItemId(incomingResults[j])}

\* C6: with a present existing entry the merged results are the existing
\* results, in order, followed by the incoming records with a new identifier,
\* in incoming order, and the pagination is the incoming page's.
MergeResult ==
  (merged # Null /\ merged.existing # Null) =>
    LET old == resultsOrEmpty(merged.existing)
        inc == resultsOrEmpty(merged.incoming)
        new == cache[merged.key].results
        J == NewIndices(old, inc)
    IN /\ IsPrefix(old, new)
       /\ Len(new) = Len(old) + Cardinality(J)
       /\ \A j \in J :
            new[Len(old) + Cardinality({k \in J : k <= j})] = inc[j]
       /\ cache[merged.key].info = merged.incoming.info

\* existing [a, b] merged with page [b, c] gives [a, b, c] and the second
\* page's pagination.
MergeResultWitness ==
  /\ merged # Null
  /\ merged.existing # Null
  /\ resultsOrEmpty(merged.existing) = <<Item(NoRef, "a"), Item(NoRef, "b")>>
  /\ merged.existing.info.next = 2
  /\ resultsOrEmpty(merged.incoming) = <<Item(NoRef, "b"), Item(NoRef, "c")>>
  /\ merged.incoming.info.next = NoPage
  /\ cache[merged.key].results =
       <<Item(NoRef, "a"), Item(NoRef, "b"), Item(NoRef, "c")>>
  /\ cache[merged.key].info.next = NoPage

\* C7: the results list before a merge is a prefix of the results list after it.
MergeOrderPreservation ==
  [][\A key \in FilterValues :
       cache[key] # Null =>
         /\ cache'[key] # Null
         /\ IsPrefix(resultsOrEmpty(cache[key]), resultsOrEmpty(cache'[key]))]_vars

\* A merge into an entry with two records of a page that repeats one of them
\* and brings a new one.
MergeOrderPreservationWitness ==
  /\ merged # Null
  /\ merged.existing # Null
  /\ Len(resultsOrEmpty(merged.existing)) = 2
  /\ \E i, j \in DOMAIN resultsOrEmpty(merged.incoming) :
       /\ i < j
       /\ ItemId(merged.incoming.results[i]) = ItemId(merged.existing.results[2])
       /\ ItemId(merged.incoming.results[j]) \notin
            {ItemId(merged.existing.results[k]) : k \in 1..2}
  /\ Len(cache[merged.key].results) = 3

\* C8: when Location A holds c and B is another Location,
\* assignCharacterToLocation(c, B.id) returns true, after it
\* getCharacterLocation(c) is B and c is not in A.characterIds.
Reassignment ==
  call.op = "assignCharacterToLocation" =>
    \A a, b \in DOMAIN LocationsBefore :
      (/\ a # b
       /\ call.characterId \in Range(LocationsBefore[a].characterIds)
       /\ LocationsBefore[b].id = call.locationId)
      => /\ call.ret = TRUE
         /\ Len(Locations) = Len(LocationsBefore)
         /\ getCharacterLocation(hasWindow, storage, call.characterId) = Locations[b]
         /\ call.characterId \notin Range(Locations[a].characterIds)

\* C9: after deleteLocation(A.id) returned true for a Location A holding c,
\* getLocationById(A.id) and getCharacterLocation(c) are null and c is in no
\* Location.
DeleteOrphans ==
  (call.op = "deleteLocation" /\ call.ret = TRUE) =>
    \A a \in DOMAIN LocationsBefore :
      \A c \in Range(LocationsBefore[a].characterIds) :
        LocationsBefore[a].id = call.locationId =>
          /\ getLocationById(hasWindow, storage, call.locationId) = Null
          /\ getCharacterLocation(hasWindow, storage, c) = Null
          /\ Holders(Locations, c) = {}

ReportedFailure(c) ==
  IF c.op = "addLocation" THEN c.ret = Null ELSE c.ret = FALSE

\* C10: a call whose setItem throws reports failure (null / false) and leaves
\* the persisted collection as it was.
WriteFailureReported ==
  (call.op # "none" /\ call.setItemThrows) =>
    (ReportedFailure(call) /\ storage = call.before)

\* C11: getLocations returns the empty collection and does not throw when the
\* key is absent, the stored string is not valid JSON, reading storage throws,
\* or there is no window.
ReadFailsOpen ==
  (/\ call.op = "getLocations"
   /\ \/ ~hasWindow
      \/ call.getItemThrows
      \/ call.before = Null
      \/ call.before = CorruptBlob)
  => (~call.threw /\ call.ret = <<>>)

\* getLocations was called in a browser over an unparseable string.
ReadFailsOpenWitness ==
  /\ call.op = "getLocations"
  /\ hasWindow
  /\ ~call.getItemThrows
  /\ call.before = CorruptBlob
  /\ call.ret = <<>>

\* The name given to the last addLocation is empty after trimming or equals a
\* stored name case-insensitively.
NameRejected ==
  \E x \in StoredNames :
    /\ IsTrimmed(x, call.name)
    /\ \/ x = <<>>
       \/ \E i \in DOMAIN LocationsBefore :
            CaseInsensitiveEqual(LocationsBefore[i].name, x)

\* C12: addLocation returns null, without a write and with the collection as
\* it was, exactly when the trimmed name is empty or equals a stored name
\* case-insensitively; otherwise it returns the new Location.
CreateValidation ==
  call.op = "addLocation" =>
    /\ (call.ret = Null) <=> NameRejected
    /\ call.ret = Null => (call.writes = 0 /\ storage = call.before)
    /\ call.ret # Null =>
         /\ IsTrimmed(call.ret.name, call.name)
         /\ call.ret.characterIds = <<>>

\* A blank name was refused over a stored collection.
CreateValidationWitness ==
  /\ call.op = "addLocation"
  /\ call.name = <<" ">>
  /\ call.ret = Null
  /\ call.writes = 0
  /\ Len(Locations) = 1

\* C13: assignCharacterToLocation to an id no Location has returns false,
\* writes nothing, and the character stays where it was.
AssignUnknownTarget ==
  (/\ call.op = "assignCharacterToLocation"
   /\ \A i \in DOMAIN LocationsBefore : LocationsBefore[i].id # call.locationId)
  => /\ call.ret = FALSE
     /\ call.writes = 0
     /\ storage = call.before
     /\ getCharacterLocation(hasWindow, storage, call.characterId)
          = getCharacterLocation(hasWindow, call.before, call.characterId)

\* A character held by a Location was assigned to an unknown id.
AssignUnknownTargetWitness ==
  /\ call.op = "assignCharacterToLocation"
  /\ \A i \in DOMAIN LocationsBefore : LocationsBefore[i].id # call.locationId
  /\ getCharacterLocation(hasWindow, call.before, call.characterId) # Null
  /\ call.ret = FALSE

RemoveAt(s, i) == SubSeq(s, 1, i - 1) \o SubSeq(s, i + 1, Len(s))

\* C14: deleteLocation(id) returns false and leaves the collection untouched
\* when no Location has the id; otherwise it returns true and the new
\* collection is the old one with exactly that one Location removed.
DeleteRemovesOne ==
  call.op = "deleteLocation" =>
    IF \A i \in DOMAIN LocationsBefore : LocationsBefore[i].id # call.locationId
    THEN call.ret = FALSE /\ storage = call.before
    ELSE /\ call.ret = TRUE
         /\ \E i \in DOMAIN LocationsBefore :
              /\ LocationsBefore[i].id = call.locationId
              /\ Locations = RemoveAt(LocationsBefore, i)

\* C15: with no existing entry, merge returns the incoming page as it is.
FirstPageVerbatim ==
  (merged # Null /\ merged.existing = Null) =>
    cache[merged.key] = merged.incoming

\* A first page of two records was written.
FirstPageVerbatimWitness ==
  /\ merged # Null
  /\ merged.existing = Null
  /\ Len(resultsOrEmpty(merged.incoming)) = 2
  /\ cache[merged.key] = merged.incoming

\* C16: after a merge into a present entry the pagination block is the
\* incoming page's in every field, and an incoming page without a new record
\* leaves the records as they were.
PaginationReplaced ==
  (merged # Null /\ merged.existing # Null) =>
    LET old == resultsOrEmpty(merged.existing)
        inc == resultsOrEmpty(merged.incoming)
        entry == cache[merged.key]
    IN /\ entry.info.count = merged.incoming.info.count
       /\ entry.info.pages = merged.incoming.info.pages
       /\ entry.info.next = merged.incoming.info.next
       /\ entry.info.prev = merged.incoming.info.prev
       /\ DOMAIN entry.info = DOMAIN merged.incoming.info
       /\ NewIndices(old, inc) = {} => resultsOrEmpty(entry) = old

\* An empty page with another pagination was merged into an entry with records.
PaginationReplacedWitness ==
  /\ merged # Null
  /\ merged.existing # Null
  /\ merged.existing.info.count # merged.incoming.info.count
  /\ resultsOrEmpty(merged.existing) # <<>>
  /\ "results" \in DOMAIN merged.incoming
  /\ merged.incoming.results = <<>>
  /\ cache[merged.key].results = merged.existing.results
  /\ cache[merged.key].info = merged.incoming.info

\* C17: merging a page without a results array gives the same entry as
\* merging the page with the same pagination and an empty results array.
MalformedIsEmpty ==
  (merged # Null /\ "results" \notin DOMAIN merged.incoming) =>
    cache[merged.key] =
      merge(merged.existing, [info |-> merged.incoming.info, results |-> <<>>])

\* C18: a response is merged into the entry of its filter whatever its page
\* number, and the entries of the other filters stay as they are.
CachePartitioning ==
  [][merges' # merges =>
       LET filter == merged'.args.filter
       IN /\ merged'.existing = cache[filter]
          /\ cache'[filter] # Null
          /\ IsPrefix(resultsOrEmpty(merged'.existing), resultsOrEmpty(cache'[filter]))
          /\ \A other \in FilterValues \ {filter} : cache'[other] = cache[other]]_vars

\* Page 2 of the filter "Rick" was merged into the entry that held its
\* page 1, and the entry of the unfiltered query is still absent.
CachePartitioningWitness ==
  /\ merged # Null
  /\ merged.args = [page |-> 2, filter |-> "Rick"]
  /\ merged.existing # Null
  /\ merged.existing.info.prev = NoPage
  /\ Len(resultsOrEmpty(cache["Rick"])) = 2
  /\ cache[NoFilter] = Null

\* C19: an addLocation that returns a Location leaves the previous collection,
\* unchanged and in order, followed by that Location, whose name is the
\* trimmed input and whose characterIds is empty.
CreateAppendsLast ==
  (call.op = "addLocation" /\ call.ret # Null) =>
    /\ Locations = Append(LocationsBefore, call.ret)
    /\ IsTrimmed(call.ret.name, call.name)
    /\ call.ret.characterIds = <<>>

\* C20: after removeCharacterFromLocations(c), c is in no Location,
\* getCharacterLocation(c) is null, and the Locations are those of before, in
\* order, each with its other character ids in their order.
UnassignEverywhere ==
  call.op = "removeCharacterFromLocations" =>
    /\ Holders(Locations, call.characterId) = {}
    /\ getCharacterLocation(hasWindow, storage, call.characterId) = Null
    /\ Len(Locations) = Len(LocationsBefore)
    /\ \A i \in DOMAIN LocationsBefore :
         /\ Locations[i].id = LocationsBefore[i].id
         /\ Locations[i].name = LocationsBefore[i].name
         /\ Locations[i].createdAt = LocationsBefore[i].createdAt
         /\ Locations[i].characterIds =
              SelectSeq(LocationsBefore[i].characterIds,
                        LAMBDA id : id # call.characterId)

Occurrences(s, x) == Cardinality({k \in DOMAIN s : s[k] = x})

\* C21: when c is already in the target Location L, assignCharacterToLocation
\* (c, L.id) returns true, every Location has the same set of member ids as
\* before, c occurs exactly once in L, and a second assign of c to L.id would
\* give the collection that one assign gives.
AssignToOwnerNoOp ==
  call.op = "assignCharacterToLocation" =>
    \A l \in DOMAIN LocationsBefore :
      (/\ LocationsBefore[l].id = call.locationId
       /\ call.characterId \in Range(LocationsBefore[l].characterIds))
      => /\ call.ret = TRUE
         /\ Len(Locations) = Len(LocationsBefore)
         /\ \A i \in DOMAIN LocationsBefore :
              Range(Locations[i].characterIds) = Range(LocationsBefore[i].characterIds)
         /\ Occurrences(Locations[l].characterIds, call.characterId) = 1
         /\ LET once == assignUpdatedLocations(LocationsBefore, call.characterId,
                                               call.locationId)
            IN assignUpdatedLocations(once, call.characterId, call.locationId) = once

\* The identifiers of the records of an entry or page.
Identifiers(x) ==
  IF x = Null THEN {}
  ELSE {ItemId(resultsOrEmpty(x)[i]) : i \in DOMAIN resultsOrEmpty(x)}

\* C22: for the prior entry E and the page P1 of the last merge and every
\* other page P2 of the same filter, merging P1 then P2 and merging P2 then P1
\* give entries with the same set of record identifiers, the union of those
\* of E, P1 and P2, and each entry has the pagination of the page merged last.
ConcurrentPages ==
  merged # Null =>
    LET E == merged.existing
        P1 == merged.incoming
    IN /\ cache[merged.key] = merge(E, P1)
       /\ \A P2 \in IncomingPages :
            LET first == merge(cache[merged.key], P2)
                second == merge(merge(E, P2), P1)
                union == Identifiers(E) \cup Identifiers(P1) \cup Identifiers(P2)
            IN /\ Identifiers(first) = union
               /\ Identifiers(second) = union
               /\ first.info = P2.info
               /\ second.info = P1.info

\* Page [a, b] was merged into an entry holding [c]: the other arrival order
\* of the two pages gives the same identifiers in another order, under the
\* other page's pagination.
ConcurrentPagesWitness ==
  /\ merged # Null
  /\ merged.existing # Null
  /\ resultsOrEmpty(merged.existing) = <<Item(NoRef, "c")>>
  /\ resultsOrEmpty(merged.incoming) = <<Item(NoRef, "a"), Item(NoRef, "b")>>
  /\ merged.existing.info # merged.incoming.info
  /\ cache[merged.key].results =
       <<Item(NoRef, "c"), Item(NoRef, "a"), Item(NoRef, "b")>>
  /\ merge(merge(Null, merged.incoming), merged.existing).results =
       <<Item(NoRef, "a"), Item(NoRef, "b"), Item(NoRef, "c")>>
  /\ merge(merge(Null, merged.incoming), merged.existing).info = merged.existing.info

SameFields(a, b) == a.id = b.id /\ a.name = b.name /\ a.createdAt = b.createdAt

\* s without the elements at the indices in R
WithoutIndices(s, R) ==
  [i \in 1..(Len(s) - Cardinality(R)) |->
     s[CHOOSE j \in DOMAIN s \ R : Cardinality({k \in DOMAIN s \ R : k <= j}) = i]]

\* C23: no step changes the id, name or createdAt of a Location that stays in
\* the collection; the collection grows only in an addLocation and shrinks
\* only in a deleteLocation, and assignCharacterToLocation and
\* removeCharacterFromLocations keep every Location at its place.
LocationFieldsImmutable ==
  [][LET before == getLocations(hasWindow, storage)
         after == getLocations(hasWindow', storage')
     IN /\ Len(after) > Len(before) => call'.op = "addLocation"
        /\ Len(after) < Len(before) => call'.op = "deleteLocation"
        /\ Len(after) >= Len(before) =>
             \A i \in DOMAIN before : SameFields(after[i], before[i])
        /\ Len(after) < Len(before) =>
             \E R \in SUBSET DOMAIN before :
               LET kept == WithoutIndices(before, R)
               IN /\ Len(kept) = Len(after)
                  /\ \A i \in DOMAIN after : SameFields(after[i], kept[i])
        /\ call'.op \in {"assignCharacterToLocation", "removeCharacterFromLocations"}
             => Len(after) = Len(before)]_vars

\* A character was moved from the second of two Locations to the first, and
\* both Locations are at their places with their id, name and createdAt.
LocationFieldsImmutableWitness ==
  /\ call.op = "assignCharacterToLocation"
  /\ call.ret = TRUE
  /\ Len(LocationsBefore) = 2
  /\ LocationsBefore[1].id = call.locationId
  /\ LocationsBefore[2].id # call.locationId
  /\ call.characterId \in Range(LocationsBefore[2].characterIds)
  /\ call.characterId \in Range(Locations[1].characterIds)
  /\ call.characterId \notin Range(Locations[2].characterIds)
  /\ \A i \in 1..2 : SameFields(Locations[i], LocationsBefore[i])

Mutations ==
  {"addLocation", "assignCharacterToLocation", "deleteLocation",
   "removeCharacterFromLocations"}

\* What a write that went through left in storage: the whole collection.
WroteWholeCollection ==
  /\ storage # Null
  /\ JSONParseOk(storage)
  /\ CASE call.op = "addLocation" -> Len(Locations) = Len(LocationsBefore) + 1
       [] call.op = "deleteLocation" -> Len(Locations) < Len(LocationsBefore)
       [] OTHER -> Len(Locations) = Len(LocationsBefore)

WritesOnce ==
  /\ call.writes <= 1
  /\ ~ReportedFailure(call) => call.writes = 1
  /\ ReportedFailure(call) => call.writes = 0
  /\ (call.writes = 1 /\ ~call.setItemThrows) => WroteWholeCollection

\* C24 as stated: every call of a mutation reads the collection once and
\* issues at most one write, which carries the complete new collection; a call
\* that succeeds issues exactly one write and one that fails validation none.
OneWritePerMutation ==
  call.op \in Mutations => (call.reads = 1 /\ WritesOnce)

\* C24, amended: in a browser every call of a mutation reads the collection
\* at most once, exactly once unless it is an addLocation whose name is empty
\* after trimming, which returns before the read; the writes are as stated.
OneWritePerMutationAmended ==
  (hasWindow /\ call.op \in Mutations) =>
    /\ call.reads = IF call.op = "addLocation" /\ IsTrimmed(<<>>, call.name)
                    THEN 0 ELSE 1
    /\ WritesOnce

\* In a browser, a blank name was refused without a read, over a stored
\* collection.
OneWritePerMutationWitness ==
  /\ hasWindow
  /\ call.op = "addLocation"
  /\ call.name = <<" ">>
  /\ call.before # Null
  /\ call.ret = Null
  /\ call.reads = 0
  /\ call.writes = 0

\* C26: starting from the empty collection, no Location's characterIds lists
\* the same character id twice.
NoDuplicateMember ==
  \A i \in DOMAIN Locations : \A c \in CharacterIds :
    Occurrences(Locations[i].characterIds, c) <= 1

\* A character already listed first in a Location of two members was assigned
\* to it again and is listed once.
NoDuplicateMemberWitness ==
  /\ call.op = "assignCharacterToLocation"
  /\ call.ret = TRUE
  /\ \E l \in DOMAIN LocationsBefore :
       /\ LocationsBefore[l].id = call.locationId
       /\ Len(LocationsBefore[l].characterIds) = 2
       /\ LocationsBefore[l].characterIds[1] = call.characterId
       /\ Len(Locations[l].characterIds) = 2
       /\ Occurrences(Locations[l].characterIds, call.characterId) = 1

\* C27: after an assignCharacterToLocation(c, L.id) that returned true, c is
\* the last element of L.characterIds, and the other ids of L are those of
\* before in their order.
AssignMovesToEnd ==
  (call.op = "assignCharacterToLocation" /\ call.ret = TRUE) =>
    \A l \in DOMAIN LocationsBefore :
      LocationsBefore[l].id = call.locationId =>
        LET ids == Locations[l].characterIds
        IN /\ ids # <<>>
           /\ ids[Len(ids)] = call.characterId
           /\ SubSeq(ids, 1, Len(ids) - 1) =
                SelectSeq(LocationsBefore[l].characterIds,
                          LAMBDA id : id # call.characterId)

\* C28: over an unparseable stored string, an addLocation that returns a
\* Location overwrites the string with the collection of that Location alone,
\* assignCharacterToLocation and deleteLocation return false and write
\* nothing, and the string is replaced only by an addLocation or by a
\* removeCharacterFromLocations, which writes the empty collection.
MutationOverUnreadable ==
  (hasWindow /\ call.op \in Mutations /\ call.before = CorruptBlob) =>
    /\ (call.op = "addLocation" /\ call.ret # Null) =>
         storage = JSONStringify(<<call.ret>>)
    /\ call.op \in {"assignCharacterToLocation", "deleteLocation"} =>
         (call.ret = FALSE /\ call.writes = 0 /\ storage = call.before)
    /\ storage # call.before =>
         call.op \in {"addLocation", "removeCharacterFromLocations"}
    /\ (call.op = "removeCharacterFromLocations" /\ storage # call.before) =>
         storage = JSONStringify(<<>>)

\* C25: under a stable onSearch, onSearch is called only when 500 ms have
\* passed without a change of the input text, with the text of that moment; a
\* burst of keystrokes less than 500 ms apart gets one onSearch call, with the
\* final text: none before the 500 ms are over, and then the one of the
\* pending timeout.
SearchDebounce ==
  /\ [](burst # <<>> =>
          /\ burstCalls <= 1
          /\ burstCalls = 1 =>
               /\ sinceChange >= DebounceDelay
               /\ searches[Len(searches)] = burst[Len(burst)]
               /\ timers = {}
          /\ burstCalls = 0 =>
               /\ Cardinality(timers) = 1
               /\ \A t \in timers :
                    t.query = burst[Len(burst)] /\ t.elapsed = sinceChange)
  /\ [][Len(searches') > Len(searches) =>
          /\ sinceChange >= DebounceDelay
          /\ searches' = Append(searches, query)
          /\ query' = query]_vars

\* "R", "Ri", "Rick" were typed less than 500 ms apart and onSearch was called
\* once since, with "Rick".
SearchDebounceWitness ==
  /\ burst = <<"R", "Ri", "Rick">>
  /\ burstCalls = 1
  /\ searches # <<>>
  /\ searches[Len(searches)] = "Rick"
  /\ sinceChange >= DebounceDelay

\* C29: every SearchBar the page renders is given the current searchQuery as
\* its initial text, in the loading, no-results and main branches alike; an
\* onSearch that fires after a mount, the text untouched, reports the current
\* searchQuery; and an onSearch changes a non-empty searchQuery only after
\* the user changed the input.
SearchTextKept ==
  /\ mounted =>
       InitialValueProp(Branch(characters, networkStatus, error), searchQuery)
         = searchQuery
  /\ (event.op = "onSearch" /\ ~event.edited) => event.text = event.searchQuery
  /\ (event.op = "onSearch" /\ event.searchQuery # "" /\ searchQuery # event.searchQuery)
       => event.edited

\* C29 (amended): the SearchBar keeps its instance and its text across the
\* loading, no-results and main branches; every SearchBar that mounts has the
\* current searchQuery as its text; an onSearch that fires with the text
\* untouched since the mount reports the current searchQuery; and an onSearch
\* changes a non-empty searchQuery only after the user changed the input.
SearchTextKeptAmended ==
  /\ []((event.op = "onSearch" /\ ~event.edited) => event.text = event.searchQuery)
  /\ []((event.op = "onSearch" /\ event.searchQuery # "" /\ searchQuery # event.searchQuery)
         => event.edited)
  /\ [][/\ (~mounted /\ mounted') => query' = searchQuery'
        /\ (mounted /\ mounted' /\ event'.op # "setQuery") => query' = query]_vars

\* C29: the loading branch renders the SearchBar that was mounted before,
\* under a non-empty searchQuery, and its onSearch fires there.
SearchTextKeptWitness ==
  /\ event.op = "onSearch"
  /\ event.searchQuery # ""
  /\ event.text = event.searchQuery
  /\ Branch(characters, networkStatus, error) = "loading"
  /\ mounted
  /\ query = searchQuery

\* C30: handleLoadMore starts no fetch without data or when info.next is
\* null, and otherwise one fetch, of the page info.next; and a click on the
\* Load More button starts a fetch only when no load-more fetch is outstanding.
LoadMoreGuard ==
  /\ LET started == handleLoadMore(characters, searchQuery)
     IN IF characters = Null THEN started = {}
        ELSE IF characters.info.next = NoPage THEN started = {}
        ELSE /\ Cardinality(started) = 1
             /\ \A r \in started : r.kind = "fetchMore" /\ r.page = characters.info.next
  /\ event.op = "handleLoadMore" =>
       /\ Cardinality(event.started) = 1
       /\ \A r \in event.started : r.page = event.data.info.next
       /\ event.outstanding = {}
====
